---- MODULE Spec2Model ----
(***************************************************************************)
(* A model of finance.py: the transactions table, the write handlers      *)
(* add / edit / delete and the report handler index (filtered list,       *)
(* totals, expense-by-category sums and the per-day series of a month).   *)
(*                                                                         *)
(* Text values whose characters matter (dates, the month parameter,       *)
(* categories, the category query) are sequences of one-character         *)
(* strings, so that lexical comparison, split, strip, casefold, parsing   *)
(* and formatting are computed character by character.  Amounts are       *)
(* integers counting thousandths of the currency unit (1500 is 1.50).     *)
(* The optional comment column plays no part in any computation and is    *)
(* left out of the rows.                                                   *)
(***************************************************************************)
EXTENDS Integers, Sequences, FiniteSets, TLC

VARIABLES store, next_id, rsp

vars == <<store, next_id, rsp>>

\* ------------------------------------------------------------------ bounds

\* The AUTOINCREMENT counter is capped: at most MaxRecords rows are ever
\* inserted, so the table never holds more than MaxRecords rows.
MaxRecords == 2

\* ------------------------------------------------------------ text helpers

\* Python's None (an absent query parameter); distinct from every text.
None == <<"None">>

\* Python truthiness of an optional text: None and '' are both falsy.
Truthy(s) == s # None /\ s # <<>>

DigitChars == <<"0", "1", "2", "3", "4", "5", "6", "7", "8", "9">>

Digits == {"0", "1", "2", "3", "4", "5", "6", "7", "8", "9"}

IsDigit(c) == c \in Digits

DigitVal(c) ==
    CASE c = "0" -> 0 [] c = "1" -> 1 [] c = "2" -> 2 [] c = "3" -> 3 [] c = "4" -> 4
      [] c = "5" -> 5 [] c = "6" -> 6 [] c = "7" -> 7 [] c = "8" -> 8 [] c = "9" -> 9

\* Code point of the characters that occur in dates and date bounds.
Ord(c) ==
    IF IsDigit(c) THEN 48 + DigitVal(c)
    ELSE CASE c = " " -> 32
           [] c = "-" -> 45
           [] c = ":" -> 58
           [] c = "T" -> 84
           [] OTHER   -> 120

\* a <= b for two texts, as SQLite's BINARY collation compares TEXT values
\* (byte by byte, a proper prefix being smaller).
RECURSIVE LexLeq(_, _)
LexLeq(a, b) ==
    IF a = <<>> THEN TRUE
    ELSE IF b = <<>> THEN FALSE
    ELSE IF Head(a) = Head(b) THEN LexLeq(Tail(a), Tail(b))
    ELSE Ord(Head(a)) < Ord(Head(b))

\* str.split('-'): the pieces between the dashes (always at least one piece).
RECURSIVE SplitDash(_, _, _)
SplitDash(s, cur, acc) ==
    IF s = <<>> THEN Append(acc, cur)
    ELSE IF Head(s) = "-" THEN SplitDash(Tail(s), <<>>, Append(acc, cur))
    ELSE SplitDash(Tail(s), Append(cur, Head(s)), acc)

AllDigits(s) == \A i \in 1..Len(s) : IsDigit(s[i])

\* int(piece) succeeds on a non-empty run of digits.  (Of the texts int()
\* also accepts, surrounding whitespace, a sign and underscores, none can be
\* written with the characters of the modelled month parameters.)
IntOk(s) == s # <<>> /\ AllDigits(s)

RECURSIVE IntVal(_)
IntVal(s) == IF s = <<>> THEN 0 ELSE 10 * IntVal(SubSeq(s, 1, Len(s) - 1)) + DigitVal(s[Len(s)])

\* str(n) for n >= 0, and the zero-padded forms used by the formatters.
RECURSIVE Decimal(_)
Decimal(n) == IF n < 10 THEN <<DigitChars[n + 1]>> ELSE Append(Decimal(n \div 10), DigitChars[(n % 10) + 1])

RECURSIVE PadTo(_, _)
PadTo(s, w) == IF Len(s) >= w THEN s ELSE PadTo(<<"0">> \o s, w)

\* str.strip(): leading and trailing blanks removed.
RECURSIVE LStrip(_)
LStrip(s) == IF s # <<>> /\ Head(s) = " " THEN LStrip(Tail(s)) ELSE s

RECURSIVE RStrip(_)
RStrip(s) == IF s # <<>> /\ s[Len(s)] = " " THEN RStrip(SubSeq(s, 1, Len(s) - 1)) ELSE s

Strip(s) == RStrip(LStrip(s))

\* str.casefold() on the letters that occur in the modelled categories.
FoldChar(c) ==
    CASE c = "F" -> "f"
      [] c = "O" -> "o"
      [] c = "T" -> "t"
      [] c = "E" -> "e"
      [] c = "A" -> "a"
      [] OTHER   -> c

CaseFold(s) == [i \in 1..Len(s) |-> FoldChar(s[i])]

\* needle in hay (substring containment; the empty needle is in every text).
Contains(hay, needle) ==
    \E i \in 1..(Len(hay) + 1) :
        /\ i + Len(needle) - 1 <= Len(hay)
        /\ SubSeq(hay, i, i + Len(needle) - 1) = needle

\* --------------------------------------------------------- calendar, dates

IsLeap(y) == y % 4 = 0 /\ (y % 100 # 0 \/ y % 400 = 0)

\* calendar.monthrange(year, mon)[1] for a month in 1..12
DaysInMonth(y, m) ==
    IF m = 2 THEN (IF IsLeap(y) THEN 29 ELSE 28)
    ELSE IF m \in {4, 6, 9, 11} THEN 30 ELSE 31

\* calendar.monthrange raises IllegalMonthError outside 1..12, and
\* date(year, mon, 1) raises ValueError outside MINYEAR..MAXYEAR.
MonthRaises(y, m) == ~(m \in 1..12) \/ ~(y \in 1..9999)

\* date(y, m, d).isoformat()
IsoFormat(y, m, d) ==
    PadTo(Decimal(y), 4) \o <<"-">> \o PadTo(Decimal(m), 2) \o <<"-">> \o PadTo(Decimal(d), 2)

\* f"{year}-{mon:02d}"
FormatYearMon(y, m) == Decimal(y) \o <<"-">> \o PadTo(Decimal(m), 2)

\* today.strftime('%Y-%m')
StrftimeYm(t) == PadTo(Decimal(t.year), 4) \o <<"-">> \o PadTo(Decimal(t.month), 2)

\* The date part YYYY-MM-DD of an ISO text names a day of the calendar.
DatePartOk(s) ==
    /\ Len(s) >= 10
    /\ AllDigits(SubSeq(s, 1, 4)) /\ s[5] = "-"
    /\ AllDigits(SubSeq(s, 6, 7)) /\ s[8] = "-"
    /\ AllDigits(SubSeq(s, 9, 10))
    /\ IntVal(SubSeq(s, 1, 4)) \in 1..9999
    /\ IntVal(SubSeq(s, 6, 7)) \in 1..12
    /\ IntVal(SubSeq(s, 9, 10)) \in 1..DaysInMonth(IntVal(SubSeq(s, 1, 4)), IntVal(SubSeq(s, 6, 7)))

\* The time part: one separator character, then HH:MM.
TimePartOk(s) ==
    /\ Len(s) = 6
    /\ AllDigits(SubSeq(s, 2, 3)) /\ s[4] = ":" /\ AllDigits(SubSeq(s, 5, 6))
    /\ IntVal(SubSeq(s, 2, 3)) \in 0..23
    /\ IntVal(SubSeq(s, 5, 6)) \in 0..59

\* datetime.fromisoformat(text) does not raise.  Modelled for the two shapes
\* of the stored dates: YYYY-MM-DD, and YYYY-MM-DD followed by a separator
\* and HH:MM; every other modelled text is rejected.
FromIsoOk(s) ==
    /\ DatePartOk(s)
    /\ Len(s) = 10 \/ TimePartOk(SubSeq(s, 11, Len(s)))

\* datetime.fromisoformat(text).day
FromIsoDay(s) == IntVal(SubSeq(s, 9, 10))

\* -------------------------------------------------------------- amounts

\* An amount is a number, counted in thousandths of the currency unit, a text
\* that float() cannot read, or the float nan.
Num(v) == [tag |-> "num", v |-> v]

BadText == [tag |-> "text", v |-> 0]

NaN == [tag |-> "nan", v |-> 0]

\* float(x) raises ValueError
FloatRaises(a) == a.tag = "text"

\* round(x, 2) on a value in thousandths, the result in thousandths.  The
\* half-way case is resolved to the even hundredth; the amounts of the model
\* are even numbers of thousandths, so no sum of them is half-way.
Round2(m) ==
    LET q == m \div 10
        r == m % 10
    IN  IF r < 5 THEN 10 * q
        ELSE IF r > 5 THEN 10 * (q + 1)
        ELSE IF q % 2 = 0 THEN 10 * q ELSE 10 * (q + 1)

\* '%.2f' formatting of a total in the page, as a value in thousandths.
Format2f(m) == Round2(m)

\* ------------------------------------------------------------- the table

\* A row of the transactions table.
Row(id, type, category, amount, date) ==
    [id |-> id, type |-> type, category |-> category, amount |-> amount, date |-> date]

\* How SQLite can produce ORDER BY date DESC, which names no second key: by
\* walking idx_transactions_date backwards (equal dates then come out in
\* descending rowid) or by sorting a scan of the table (equal dates then keep
\* the ascending rowid of the scan).  The statement fixes neither.
TiePlans == {"index_backward", "scan_sort"}

\* Row a comes before row b in the result of ORDER BY date DESC under a plan.
Before(a, b, plan) ==
    \/ a.date # b.date /\ LexLeq(b.date, a.date)
    \/ a.date = b.date /\ (IF plan = "scan_sort" THEN a.id < b.id ELSE a.id > b.id)

\* The rows of a set in result order.
RECURSIVE OrderBy(_, _)
OrderBy(rows, plan) ==
    IF rows = {} THEN <<>>
    ELSE LET first == CHOOSE a \in rows : \A b \in rows \ {a} : Before(a, b, plan)
         IN  <<first>> \o OrderBy(rows \ {first}, plan)

\* Mutant: the upper bound is exclusive (date < ?).
DateMatch_ExclusiveTo(r, period_from, period_to) ==
    /\ Truthy(period_from) => LexLeq(period_from, r.date)
    /\ Truthy(period_to) => (LexLeq(r.date, period_to) /\ r.date # period_to)

\* WHERE 1=1 [AND date >= ?] [AND date <= ?]
DateMatch(r, period_from, period_to) ==
    /\ Truthy(period_from) => LexLeq(period_from, r.date)
    /\ Truthy(period_to) => LexLeq(r.date, period_to)

\* needle in str(r.get('category', '')).strip().casefold()
CategoryMatch(r, category_query) ==
    Truthy(category_query) =>
        Contains(CaseFold(Strip(r.category)), CaseFold(Strip(category_query)))

Rows(tbl) == {tbl[i] : i \in 1..Len(tbl)}

fetch_transactions(tbl, period_from, period_to, category_query, plan) ==
    LET rows == OrderBy({r \in Rows(tbl) : DateMatch(r, period_from, period_to)}, plan)
    IN  SelectSeq(rows, LAMBDA r : CategoryMatch(r, category_query))

get_transaction_by_id(tbl, tx_id) == {r \in Rows(tbl) : r.id = tx_id}

\* INSERT: the row gets the next AUTOINCREMENT id and goes last in rowid order.
insert_transaction(tbl, id, tx_type, category, amount, dt_iso) ==
    Append(tbl, Row(id, tx_type, category, amount, dt_iso))

\* UPDATE ... WHERE id=?
update_transaction(tbl, tx_id, tx_type, category, amount, dt_iso) ==
    [i \in 1..Len(tbl) |->
        IF tbl[i].id = tx_id THEN Row(tx_id, tx_type, category, amount, dt_iso) ELSE tbl[i]]

\* DELETE ... WHERE id=?
delete_transaction(tbl, tx_id) == SelectSeq(tbl, LAMBDA r : r.id # tx_id)

\* amount REAL NOT NULL: SQLite stores the float nan as NULL, which the
\* constraint refuses (sqlite3.IntegrityError), and the statement changes nothing.
NotNullRefuses(amount) == amount.tag = "nan"

\* ------------------------------------------------------------ index(): totals

\* The running state of the totals loop: totals['income'], totals['expense'] and
\* expense_category_sums, a defaultdict kept as its (category, sum) items in
\* the order the keys were first inserted.
EmptyTotals == [income |-> 0, expense |-> 0, items |-> <<>>]

HasKey(items, c) == \E i \in 1..Len(items) : items[i].category = c

\* Mutant: the sum of a category is overwritten, not added to.
AddToKey_Assigns(items, c, amt) ==
    IF HasKey(items, c)
    THEN [i \in 1..Len(items) |->
            IF items[i].category = c THEN [items[i] EXCEPT !.sum = amt] ELSE items[i]]
    ELSE Append(items, [category |-> c, sum |-> amt])

\* expense_category_sums[c] += amt
AddToKey(items, c, amt) ==
    IF HasKey(items, c)
    THEN [i \in 1..Len(items) |->
            IF items[i].category = c THEN [items[i] EXCEPT !.sum = @ + amt] ELSE items[i]]
    ELSE Append(items, [category |-> c, sum |-> amt])

\* One pass of the loop body over a row whose amount float() can read.
TotalsStep(acc, t) ==
    IF t.type = "income" THEN [acc EXCEPT !.income = @ + t.amount.v]
    ELSE IF t.type = "expense"
    THEN [acc EXCEPT !.expense = @ + t.amount.v,
                     !.items = AddToKey(@, t.category, t.amount.v)]
    ELSE acc

RECURSIVE TotalsLoop(_, _)
TotalsLoop(txs, acc) ==
    IF txs = <<>> THEN acc ELSE TotalsLoop(Tail(txs), TotalsStep(acc, Head(txs)))

\* float(t['amount']) raises for some row of the list
AmountRaises(txs) == \E i \in 1..Len(txs) : FloatRaises(txs[i].amount)

\* ------------------------------------------------------ index(): month series

\* The day on which the requests are served (date.today()).
Today == [year |-> 2024, month |-> 2, day |-> 15]

\* year, mon = map(int, month.split('-')) succeeds: exactly two pieces, both
\* read by int().
MonthParses(month) ==
    LET parts == SplitDash(month, <<>>, <<>>)
    IN  Len(parts) = 2 /\ IntOk(parts[1]) /\ IntOk(parts[2])

\* Mutant: a text that does not parse resolves to the epoch month, not to today.
ResolveMonth_EpochFallback(month, today) ==
    IF month = <<>> THEN [year |-> today.year, mon |-> today.month]
    ELSE IF MonthParses(month)
    THEN LET parts == SplitDash(month, <<>>, <<>>)
         IN  [year |-> IntVal(parts[1]), mon |-> IntVal(parts[2])]
    ELSE [year |-> 1970, mon |-> 1]

\* The (year, mon) the series is built for.
ResolveMonth(month, today) ==
    IF month # <<>> /\ MonthParses(month)
    THEN LET parts == SplitDash(month, <<>>, <<>>)
         IN  [year |-> IntVal(parts[1]), mon |-> IntVal(parts[2])]
    ELSE [year |-> today.year, mon |-> today.month]

\* The position list[i] reads or writes for a Python index i: negative indices
\* count from the end; 0 when the index is out of range (IndexError).
PyPos(i, n) ==
    LET j == IF i < 0 THEN i + n ELSE i
    IN  IF 0 <= j /\ j < n THEN j + 1 ELSE 0

\* The running state of the per-day loop.
EmptySeries(n) ==
    [income_by_day |-> [i \in 1..n |-> 0], expense_by_day |-> [i \in 1..n |-> 0], raised |-> FALSE]

\* One pass of the per-day loop body.
SeriesStep(acc, tx) ==
    IF acc.raised \/ ~FromIsoOk(tx.date) THEN acc
    ELSE IF FloatRaises(tx.amount) THEN [acc EXCEPT !.raised = TRUE]
    ELSE LET pos == PyPos(FromIsoDay(tx.date) - 1, Len(acc.income_by_day))
         IN  IF tx.type = "income"
             THEN (IF pos = 0 THEN [acc EXCEPT !.raised = TRUE]
                   ELSE [acc EXCEPT !.income_by_day[pos] = @ + tx.amount.v])
             ELSE IF tx.type = "expense"
             THEN (IF pos = 0 THEN [acc EXCEPT !.raised = TRUE]
                   ELSE [acc EXCEPT !.expense_by_day[pos] = @ + tx.amount.v])
             ELSE acc

RECURSIVE SeriesLoop(_, _)
SeriesLoop(txs, acc) ==
    IF txs = <<>> THEN acc ELSE SeriesLoop(Tail(txs), SeriesStep(acc, Head(txs)))

\* Mutant: the rows are not bounded by the last day of the month.
MonthlyTransactions_NoLastDay(tbl, year, mon, plan) ==
    fetch_transactions(tbl, IsoFormat(year, mon, 1), None, None, plan)

\* The rows the per-day loop runs over.
MonthlyTransactions(tbl, year, mon, plan) ==
    fetch_transactions(tbl, IsoFormat(year, mon, 1),
                       IsoFormat(year, mon, DaysInMonth(year, mon)), None, plan)

\* ------------------------------------------------------------ index(): whole

Request(frm, to, q, month) == [frm |-> frm, to |-> to, q |-> q, month |-> month]

\* An uncaught exception in index(): the request ends in an error response,
\* no page.
Raised(kind, req) == [kind |-> kind, status |-> "error", req |-> req]

\* The template variables of the rendered page.
Page(req, transactions, totals, ym, series, display_month) ==
    [kind |-> "index", status |-> "ok", req |-> req,
     transactions |-> transactions,
     income_total |-> Format2f(totals.income),
     expense_total |-> Format2f(totals.expense),
     expense_categories |-> [i \in 1..Len(totals.items) |-> totals.items[i].category],
     expense_cat_values |-> [i \in 1..Len(totals.items) |-> Round2(totals.items[i].sum)],
     year |-> ym.year, mon |-> ym.mon,
     income_labels |-> [i \in 1..Len(series.income_by_day) |-> i],
     income_values |-> [i \in 1..Len(series.income_by_day) |-> Round2(series.income_by_day[i])],
     expense_values |-> [i \in 1..Len(series.expense_by_day) |-> Round2(series.expense_by_day[i])],
     display_month |-> display_month,
     default_month |-> FormatYearMon(ym.year, ym.mon)]

\* The rows shown in the list: fetch_transactions(frm, to, q if q else None)
VisibleTransactions(tbl, frm, to, q, plan) ==
    fetch_transactions(tbl, frm, to, IF Strip(q) # <<>> THEN Strip(q) ELSE None, plan)

\* index() from the totals on: the list to show is `transactions`, and the
\* month series is read from the table again.
Report(req, transactions, tbl, month, today, plan2) ==
    LET ym == ResolveMonth(month, today)
    IN  IF AmountRaises(transactions) \/ MonthRaises(ym.year, ym.mon)
        THEN Raised("index", req)
        ELSE LET series == SeriesLoop(MonthlyTransactions(tbl, ym.year, ym.mon, plan2),
                                      EmptySeries(DaysInMonth(ym.year, ym.mon)))
                 display_month == IF month # <<>> THEN FormatYearMon(ym.year, ym.mon)
                                  ELSE StrftimeYm(today)
             IN  IF series.raised THEN Raised("index", req)
                 ELSE Page(req, transactions, TotalsLoop(transactions, EmptyTotals),
                           ym, series, display_month)

\* Mutant: the month series is built from the rows of the filtered list.
Index_SeriesFromList(tbl, frm, to, q, month, today, plan1, plan2) ==
    Report(Request(frm, to, q, month), VisibleTransactions(tbl, frm, to, q, plan1),
           VisibleTransactions(tbl, frm, to, q, plan1), month, today, plan2)

\* The result of index() on a table, for the query parameters from, to, q and
\* month, when the two SELECTs are run with plans plan1 and plan2.
Index(tbl, frm, to, q, month, today, plan1, plan2) ==
    Report(Request(frm, to, q, month), VisibleTransactions(tbl, frm, to, q, plan1),
           tbl, month, today, plan2)

\* ------------------------------------------------------------ request inputs

Food == <<"F", "o", "o", "d">>

Tea == <<"T", "e", "a">>

\* 2024-02-29, a leap day and the last day of the month of Today
LeapDay == IsoFormat(2024, 2, 29)

\* 2024-02-2: not an ISO date, yet lexically inside February 2024
ShortDate == SubSeq(LeapDay, 1, 9)

\* 2023-02-15T10:00: a date with a time of day
TimedDate == IsoFormat(2023, 2, 15) \o <<"T", "1", "0", ":", "0", "0">>

\* A submitted form of the add and edit pages.  The type is whatever the POST
\* carries (the page's select offers income and expense); the amount is what
\* the submitted text is to float(): unreadable, nan, or a number.
Form(tx_type, category, amount, dt_iso) ==
    [type |-> tx_type, category |-> category, amount |-> amount, date |-> dt_iso]

GoodForms ==
    { Form("expense", Food, Num(4), LeapDay),
      Form("expense", Tea, Num(4), LeapDay),
      Form("income", Food, Num(1500), LeapDay),
      Form("expense", Tea, Num(1500), ShortDate),
      Form("income", Tea, Num(1500), TimedDate),
      Form("transfer", Food, Num(1500), LeapDay),
      Form("expense", Food, Num(1500), TimedDate),
      Form("income", Food, Num(4), ShortDate) }

BadAmounts == {BadText, NaN, Num(0 - 1500), Num(0)}

Forms == GoodForms \cup {Form("expense", Food, a, LeapDay) : a \in BadAmounts}

\* Query parameters of the report page.
FromInputs == {None, LeapDay}

ToInputs == {None, <<>>, ShortDate}

QueryInputs == {<<>>, <<" ", "O", "O">>}

NotAMonth == <<"n", "o", "t", "-", "a", "-", "m", "o", "n", "t", "h">>

\* month: absent, 2023-02, 999-02, 2024-2, 2024-13, not-a-month
MonthInputs ==
    { <<>>,
      <<"2", "0", "2", "3", "-", "0", "2">>,
      <<"9", "9", "9", "-", "0", "2">>,
      <<"2", "0", "2", "4", "-", "2">>,
      <<"2", "0", "2", "4", "-", "1", "3">>,
      NotAMonth }

\* ------------------------------------------------------------------ handlers

\* try: amount = float(request.form['amount']) / except Exception: amount = 0.0
FormAmount(a) == IF FloatRaises(a) THEN Num(0) ELSE a

\* Mutant: only negative amounts are turned away (amount < 0).
NotPositive_AllowsZero(amount) == amount.tag = "num" /\ amount.v < 0

\* if amount <= 0 (false for nan)
NotPositive(amount) == amount.tag = "num" /\ amount.v <= 0

\* No request is being served.
NoResponse == [kind |-> "none", status |-> "none"]

Done(kind, status, a) == [kind |-> kind, status |-> status, amount |-> a]

\* GET / : the report page; reads the table, changes nothing.
IndexReq ==
    \E frm \in FromInputs, to \in ToInputs, q \in QueryInputs, month \in MonthInputs,
       plan1 \in TiePlans, plan2 \in TiePlans :
        /\ rsp = NoResponse
        /\ rsp' = Index(store, frm, to, q, month, Today, plan1, plan2)
        /\ UNCHANGED <<store, next_id>>

\* POST /add
Add ==
    \E form \in Forms :
        LET amount == FormAmount(form.amount)
        IN  /\ rsp = NoResponse
            /\ IF NotPositive(amount)
               THEN /\ rsp' = Done("add", "redirect", form.amount)
                    /\ UNCHANGED <<store, next_id>>
               ELSE IF NotNullRefuses(amount)
               THEN /\ rsp' = Done("add", "error", form.amount)
                    /\ UNCHANGED <<store, next_id>>
               ELSE /\ next_id <= MaxRecords
                    /\ store' = insert_transaction(store, next_id, form.type, form.category,
                                                   amount, form.date)
                    /\ next_id' = next_id + 1
                    /\ rsp' = Done("add", "redirect", form.amount)

\* GET /delete/<tx_id>
Delete ==
    \E tx_id \in 1..MaxRecords :
        /\ rsp = NoResponse
        /\ store' = delete_transaction(store, tx_id)
        /\ rsp' = [kind |-> "delete", status |-> "redirect"]
        /\ UNCHANGED next_id

\* GET or POST /edit/<tx_id>
Edit ==
    \E tx_id \in 1..MaxRecords, method \in {"GET", "POST"}, form \in Forms :
        LET amount == FormAmount(form.amount)
        IN  /\ rsp = NoResponse
            /\ method = "GET" => form = Form("expense", Food, Num(0), LeapDay)
            /\ UNCHANGED next_id
            /\ IF get_transaction_by_id(store, tx_id) = {}
               THEN /\ rsp' = [kind |-> "edit", status |-> "notfound"]
                    /\ UNCHANGED store
               ELSE IF method = "GET"
               THEN /\ rsp' = [kind |-> "edit", status |-> "ok"]
                    /\ UNCHANGED store
               ELSE IF NotPositive(amount)
               THEN /\ rsp' = Done("edit", "redirect", form.amount)
                    /\ UNCHANGED store
               ELSE IF NotNullRefuses(amount)
               THEN /\ rsp' = Done("edit", "error", form.amount)
                    /\ UNCHANGED store
               ELSE /\ store' = update_transaction(store, tx_id, form.type, form.category,
                                                   amount, form.date)
                    /\ rsp' = Done("edit", "redirect", form.amount)

\* The handler has returned and its response is sent: the server is ready for
\* the next request.
Respond ==
    /\ rsp # NoResponse
    /\ rsp' = NoResponse
    /\ UNCHANGED <<store, next_id>>

\* -------------------------------------------------------------- specifications

\* A new database: init_db() creates an empty table.
Init ==
    /\ store = <<>>
    /\ next_id = 1
    /\ rsp = NoResponse

Next == IndexReq \/ Add \/ Delete \/ Edit \/ Respond

Spec == Init /\ [][Next]_vars

\* A database file that already holds a row written by something else, whose
\* amount is a text (a REAL column keeps a text that is not a number as TEXT).
LegacyInit ==
    /\ \E form \in GoodForms :
          store = <<Row(1, form.type, form.category, BadText, form.date)>>
    /\ next_id = 2
    /\ rsp = NoResponse

LegacySpec == LegacyInit /\ [][Next]_vars

\* ------------------------------------------------------- vocabulary of the claims

\* The response is that of an index() request / a rendered report page.
IsIndex == rsp.kind = "index"

IsPage == rsp.kind = "index" /\ rsp.status = "ok"

\* The month parameter names a month of the calendar: two integers, a year in
\* 1..9999 and a month in 1..12.
NamesMonth(month) ==
    /\ month # <<>>
    /\ MonthParses(month)
    /\ ~MonthRaises(ResolveMonth(month, Today).year, ResolveMonth(month, Today).mon)

\* The stored rows a request with these parameters is to show.
Visible(req) ==
    {r \in Rows(store) :
        /\ Truthy(req.frm) => LexLeq(req.frm, r.date)
        /\ Truthy(req.to) => LexLeq(r.date, req.to)
        /\ Contains(CaseFold(Strip(r.category)), CaseFold(Strip(req.q)))}

\* The (year, mon) a month parameter resolves to is a month of the calendar.
MonthResolves(month) ==
    ~MonthRaises(ResolveMonth(month, Today).year, ResolveMonth(month, Today).mon)

\* What a row contributes to a sum: its amount, and 0 when it is not a number.
Contribution(r) == IF r.amount.tag = "num" THEN r.amount.v ELSE 0

RECURSIVE SumOf(_)
SumOf(rows) ==
    IF rows = {} THEN 0
    ELSE LET r == CHOOSE x \in rows : TRUE
         IN  Contribution(r) + SumOf(rows \ {r})

RECURSIVE SumSeq(_)
SumSeq(s) == IF s = <<>> THEN 0 ELSE Head(s) + SumSeq(Tail(s))

OfType(rows, type) == {r \in rows : r.type = type}

\* ---------------------------------------------------------------------- C1
\* C1: for every yearMonth text the month series computation of index()
\* completes without raising, and a text that is not a valid YYYY-MM month
\* (month 0 or 13 included) degrades to the current year and month.
\* Stated as the claim stands; violated by month=2024-13, which parses as two
\* integers and makes calendar.monthrange raise.
C1_EveryMonthTextCompletes ==
    IsIndex =>
        /\ rsp.status = "ok"
        /\ ~NamesMonth(rsp.req.month) =>
              rsp.year = Today.year /\ rsp.mon = Today.month

\* ---------------------------------------------------------------------- C2
\* C2: whatever rows are stored, rows with an unreadable amount included, the
\* totals and the per-day accumulation never raise; such a row contributes 0
\* and every other row is still aggregated.  Stated for requests whose month
\* resolves to a month of the calendar; violated as soon as the table holds a
\* row whose amount is a text, since float() is called outside any try.
C2_CorruptAmountCountsZero ==
    (IsIndex /\ MonthResolves(rsp.req.month)) =>
        /\ rsp.status = "ok"
        /\ rsp.income_total = Round2(SumOf(OfType(Visible(rsp.req), "income")))
        /\ rsp.expense_total = Round2(SumOf(OfType(Visible(rsp.req), "expense")))
        /\ \A i \in 1..Len(rsp.expense_categories) :
              rsp.expense_cat_values[i] =
                  Round2(SumOf({r \in OfType(Visible(rsp.req), "expense") :
                                    r.category = rsp.expense_categories[i]}))

\* ---------------------------------------------------------------------- C3
\* C3: the list index() shows is sorted by date descending, and rows of the
\* same date appear in one fixed secondary order, the insertion/id order, on
\* every call.  Violated: ORDER BY date DESC names no second key, so rows of
\* one date come out in the order of the query plan, which can be descending id.
C3_DateDescThenIdOrder ==
    IsPage =>
        \A i, j \in 1..Len(rsp.transactions) :
            i < j =>
                /\ LexLeq(rsp.transactions[j].date, rsp.transactions[i].date)
                /\ rsp.transactions[i].date = rsp.transactions[j].date =>
                      rsp.transactions[i].id < rsp.transactions[j].id

\* ---------------------------------------------------------------------- C9
\* C9: from an empty table, after any adds, edits and deletes with arbitrary
\* form values, the type of every stored row is income or expense, so every
\* visible row counts in exactly one of the two totals.  Violated: add and
\* edit store the submitted type unchecked.
C9_KindIsIncomeOrExpense ==
    /\ \A r \in Rows(store) : r.type \in {"income", "expense"}
    /\ IsPage =>
          \A i \in 1..Len(rsp.transactions) :
              rsp.transactions[i].type \in {"income", "expense"}

\* ---------------------------------------------------------------------- C4
\* C4 as it stands: for every visible set, with amounts of up to three decimal
\* places, the rounded values of expenseByCategory add up to the rounded
\* expenseTotal.  Violated by two expenses of 0.004 in two categories:
\* 0.00 + 0.00 against round(0.008, 2) = 0.01.
C4_RoundedSumsAgree ==
    IsPage => SumSeq(rsp.expense_cat_values) = rsp.expense_total

\* Every visible expense is a whole number of hundredths.
VisibleExpensesWholeCents ==
    \A i \in 1..Len(rsp.transactions) :
        rsp.transactions[i].type = "expense" => rsp.transactions[i].amount.v % 10 = 0

\* C4, amended: when every visible expense amount has at most two decimal
\* places, the rounded values of expenseByCategory add up to the rounded
\* expenseTotal.
C4_RoundedSumsAgreeOnCents ==
    (IsPage /\ VisibleExpensesWholeCents) =>
        SumSeq(rsp.expense_cat_values) = rsp.expense_total

\* A page with two expense categories, whole hundredths only, and both summed.
C4_Witness ==
    /\ IsPage
    /\ VisibleExpensesWholeCents
    /\ Len(rsp.expense_cat_values) = 2
    /\ rsp.expense_total = 3000

\* ---------------------------------------------------------------------- C5
\* C5: for a fixed table, month parameter and current date, the month series
\* (day labels, income and expense values, display_month) of index() is the one
\* of the request with no from, to and q: the list filters do not reach it.
C5_SeriesIgnoresFilters ==
    IsIndex =>
        LET base == Index(store, None, None, <<>>, rsp.req.month, Today, "scan_sort", "scan_sort")
        IN  /\ rsp.status = base.status
            /\ rsp.status = "ok" =>
                  /\ rsp.income_labels = base.income_labels
                  /\ rsp.income_values = base.income_values
                  /\ rsp.expense_values = base.expense_values
                  /\ rsp.display_month = base.display_month

\* A page whose filters leave the list empty while the month series is not.
C5_Witness ==
    /\ IsPage
    /\ Truthy(rsp.req.to) /\ Strip(rsp.req.q) # <<>>
    /\ rsp.transactions = <<>>
    /\ \E k \in 1..Len(rsp.income_values) : rsp.income_values[k] + rsp.expense_values[k] > 0

\* ---------------------------------------------------------------------- C6
\* The interval [a, b] lies within [a2, b2]; an absent or empty bound is no bound.
Within(a, b, a2, b2) ==
    /\ Truthy(a2) => (Truthy(a) /\ LexLeq(a2, a))
    /\ Truthy(b2) => (Truthy(b) /\ LexLeq(b, b2))

IdsOf(txs) == {txs[i].id : i \in 1..Len(txs)}

\* C6: the list holds exactly the rows with from <= date (when from is given),
\* date <= to (when to is given), both inclusive, that match the category
\* query; and every row of the list is also in the list of any request with
\* the same query and a wider date interval.
C6_FilterInclusiveAndMonotone ==
    IsPage =>
        /\ IdsOf(rsp.transactions) = {r.id : r \in Visible(rsp.req)}
        /\ Len(rsp.transactions) = Cardinality(Visible(rsp.req))
        /\ \A a2 \in FromInputs, b2 \in ToInputs :
              Within(rsp.req.frm, rsp.req.to, a2, b2) =>
                  IdsOf(rsp.transactions) \subseteq
                      IdsOf(VisibleTransactions(store, a2, b2, rsp.req.q, "scan_sort"))

\* A page with an upper bound that keeps a row dated on the bound itself and
\* leaves another stored row out.
C6_Witness ==
    /\ IsPage
    /\ Truthy(rsp.req.to)
    /\ \E i \in 1..Len(rsp.transactions) : rsp.transactions[i].date = rsp.req.to
    /\ \E r \in Rows(store) : r.id \notin IdsOf(rsp.transactions)

Unacceptable(a) == a.tag = "text" \/ (a.tag = "num" /\ a.v <= 0)

\* C8: from an empty table, after any adds, edits and deletes, every stored
\* amount is a number greater than 0, and an add or edit whose amount is
\* unreadable, zero or negative leaves the table as it was.
C8_OnlyPositiveAmountsStored ==
    /\ [](\A r \in Rows(store) : r.amount.tag = "num" /\ r.amount.v > 0)
    /\ [][(/\ rsp'.kind \in {"add", "edit"}
           /\ rsp'.status \in {"redirect", "error"}
           /\ Unacceptable(rsp'.amount)) => store' = store]_vars

\* An add or edit with an unacceptable amount was turned away on a table that
\* holds rows.
C8_Witness ==
    /\ rsp.kind \in {"add", "edit"}
    /\ rsp.status = "redirect"
    /\ Unacceptable(rsp.amount)
    /\ Len(store) = MaxRecords

\* --------------------------------------------------------------------- C10
\* The stored rows inside the lexical range [first day, last day] of a month
\* whose date parses.
BucketRows(year, mon) ==
    {r \in Rows(store) :
        /\ LexLeq(IsoFormat(year, mon, 1), r.date)
        /\ LexLeq(r.date, IsoFormat(year, mon, DaysInMonth(year, mon)))
        /\ FromIsoOk(r.date)}

\* C10: for every month parameter that resolves to a month of the calendar,
\* index() completes, both day series have daysInMonth entries, every row in
\* the lexical range of the month whose date parses has 0 <= day-1 <
\* daysInMonth and is summed at that index, and no other row changes a bucket.
C10_DayBuckets ==
    (IsIndex /\ MonthResolves(rsp.req.month)) =>
        /\ rsp.status = "ok"
        /\ LET days == DaysInMonth(rsp.year, rsp.mon)
               rows == BucketRows(rsp.year, rsp.mon)
           IN  /\ Len(rsp.income_values) = days
               /\ Len(rsp.expense_values) = days
               /\ \A r \in rows : FromIsoDay(r.date) - 1 \in 0..(days - 1)
               /\ \A k \in 1..days :
                     /\ rsp.income_values[k] =
                           Round2(SumOf({r \in OfType(rows, "income") : FromIsoDay(r.date) = k}))
                     /\ rsp.expense_values[k] =
                           Round2(SumOf({r \in OfType(rows, "expense") : FromIsoDay(r.date) = k}))

\* A page of February 2024 over a table that holds the unparseable 2024-02-2
\* and a row summed on the 29th.
C10_Witness ==
    /\ IsPage
    /\ rsp.year = 2024 /\ rsp.mon = 2
    /\ \E r \in Rows(store) : r.date = ShortDate
    /\ rsp.income_values[29] + rsp.expense_values[29] > 0

====
